---------------------------- MODULE Spec2Model ----------------------------
(***************************************************************************)
(* A model of easytorch: the EasyTorch orchestrator (easytorch.py) and the *)
(* ETTrainer (trainer.py).                                                 *)
(*                                                                         *)
(*   SpecCtor  EasyTorch.__init__, one step per statement group            *)
(*   SpecCkpt  ETTrainer.save_checkpoint / load_checkpoint between a       *)
(*             saving trainer and a fresh loading trainer                  *)
(*   Spec      EasyTorch.run / _run with ETTrainer.train inside it         *)
(*   SpecTrain ETTrainer.train of one fold (SpecTrainFair: with fairness)  *)
(*   SpecTest  EasyTorch._get_test_dataset                                 *)
(*   SpecPair  two runs of ETTrainer.train, one quiet and one verbose      *)
(*                                                                         *)
(* Python values.  A dict entry or an Optional argument is one of          *)
(*   Absent (the key is not in the dict), None, Some(v).                   *)
(* Strings that the code inspects character by character (dict keys of a   *)
(* dataset spec, paths) are sequences of one-character strings.            *)
(* Scores are fixed-point numbers in tenths (5 stands for 0.5).            *)
(***************************************************************************)
EXTENDS Integers, Sequences, FiniteSets, TLC

-----------------------------------------------------------------------------
(* Bounds of the model *)

MaxGpus == 2
MaxEpochs == 3
MaxRunEpochs == 1
MaxPatience == 2
MaxScore == 2
MaxBatches == 2
MaxParams == 1
MaxFiles == 3

-----------------------------------------------------------------------------
(* Python values *)

Absent == <<>>
None == <<"None">>
Some(v) == <<"Some", v>>
IsSome(o) == Len(o) = 2
Val(o) == o[2]

\* range(n) as a list
Range(n) == [i \in 1..n |-> i - 1]

\* bool(v) of a value of the type the parameter p takes
TruthyVal(p, v) ==
    CASE p = "verbose" -> v = TRUE
      [] p = "load_sparse" -> v = TRUE
      [] p = "epochs" -> v /= 0
      [] p = "phase" -> v /= ""
      [] p = "gpus" -> v /= <<>>
      [] p = "dataset_dir" -> v /= <<>>

\* the truth value Python's `if x:` gives an Optional argument
Truthy(p, o) == IsSome(o) /\ TruthyVal(p, Val(o))

\* s.endswith(suffix)
EndsWith(s, suffix) ==
    /\ Len(s) >= Len(suffix)
    /\ SubSeq(s, Len(s) - Len(suffix) + 1, Len(s)) = suffix

\* s.startswith(prefix)
StartsWith(s, prefix) ==
    /\ Len(s) >= Len(prefix)
    /\ SubSeq(s, 1, Len(prefix)) = prefix

\* sub in s
Contains(s, sub) ==
    \E i \in 1..(Len(s) - Len(sub) + 1) : SubSeq(s, i, i + Len(sub) - 1) = sub

\* os.path.join(a, b) on a POSIX system
PathJoin(a, b) ==
    IF StartsWith(b, <<"/">>) THEN b
    ELSE IF a = <<>> \/ EndsWith(a, <<"/">>) THEN a \o b
    ELSE a \o <<"/">> \o b

S_dir == <<"d", "i", "r">>
S_name == <<"n", "a", "m", "e">>
S_img_dir == <<"i", "m", "g", "_", "d", "i", "r">>
S_direction == <<"d", "i", "r", "e", "c", "t", "i", "o", "n">>
S_images == <<"i", "m", "a", "g", "e", "s">>
S_abs == <<"/", "a", "b", "s">>
S_up == <<"u", "p">>
S_ds == <<"d", "s">>
S_data == <<"/", "d", "a", "t", "a">>
S_mnt == <<"/", "m", "n", "t", "/">>

-----------------------------------------------------------------------------
VARIABLES
    \* EasyTorch.__init__
    c_pc,          \* the statement of __init__ to run next
    c_env,         \* easytorch.config: num_gpus, cuda_available
    c_args,        \* self.args
    c_passed,      \* the named parameter merged last and the value passed
    c_in_specs,    \* the dataspecs given to the constructor
    c_dataspecs,   \* self.dataspecs
    c_err          \* the exception that ended __init__, "" if none

ctorVars == <<c_pc, c_env, c_args, c_passed, c_in_specs, c_dataspecs, c_err>>

VARIABLES
    \* save_checkpoint / load_checkpoint between two trainers
    k_pc,          \* "start", "saved", "loaded" or "load_failed"
    k_A,           \* the trainer that saves
    k_B,           \* the fresh trainer that loads
    k_file,        \* the checkpoint file, Absent until written
    k_err          \* the exception load_checkpoint raised, "" if none

ckptVars == <<k_pc, k_A, k_B, k_file, k_err>>

VARIABLES
    \* EasyTorch.run, EasyTorch._run and ETTrainer.train
    args,          \* self.args of the constructed EasyTorch
    user,          \* what the user's trainer class and files provide
    pc,            \* the statement of run / _run / train to run next
    di,            \* run: index of the dataset spec of the loop
    fi,            \* _run: index of the split file of the loop
    ep,            \* train: the epoch of the loop
    trainer,       \* the trainer: its models and optimizers
    cache,         \* trainer.cache
    global_acc,    \* _run: what global_averages / global_score accumulated
    val_score,     \* train: the monitored score of the last validation
    disk,          \* log files and checkpoint files
    input_i,       \* check_previous_logs: its local i
    prompted,      \* check_previous_logs: whether input() was called
    workers,       \* the processes of the running _mp.spawn
    spawned,       \* the _mp.spawn calls made
    executed,      \* the folds whose test evaluation was run
    err            \* the exception that ended run, "" if none

runVars == <<args, user, pc, di, fi, ep, trainer, cache, global_acc, val_score, disk,
             input_i, prompted, workers, spawned, executed, err>>

VARIABLES
    \* EasyTorch._get_test_dataset
    t_pc,          \* "enter", "sparse" (the loop over the files) or "returned"
    t_args,        \* self.args: load_sparse, load_limit
    t_split,       \* the split of the fold: its 'test' entry
    t_next,        \* the index in the test list of the loop's next f
    t_list         \* test_dataset_list

testVars == <<t_pc, t_args, t_split, t_next, t_list>>

VARIABLES
    \* two runs of ETTrainer.train that differ in args['verbose'] only
    p_pc,          \* the statement of train() the runs are at
    p_args,        \* self.args of the two runs, but for 'verbose'
    p_user,        \* the trainer class and the loader of the two runs
    p_score,       \* the monitored score of the last validation of both
    p_quiet,       \* the run with verbose = False: ep, trainer, cache, disk
    p_loud         \* the run with verbose = True

pairVars == <<p_pc, p_args, p_user, p_score, p_quiet, p_loud>>

vars == <<ctorVars, ckptVars, runVars, testVars, pairVars>>

IdleCtor ==
    /\ c_pc = "idle"
    /\ c_env = [num_gpus |-> 0, cuda_available |-> FALSE]
    /\ c_args = <<>>
    /\ c_passed = [param |-> "", value |-> None]
    /\ c_in_specs = <<>>
    /\ c_dataspecs = <<>>
    /\ c_err = ""

IdleCkpt ==
    /\ k_pc = "idle"
    /\ k_A = <<>>
    /\ k_B = <<>>
    /\ k_file = Absent
    /\ k_err = ""

IdleRun ==
    /\ args = <<>>
    /\ user = <<>>
    /\ pc = "idle"
    /\ di = 0
    /\ fi = 0
    /\ ep = 0
    /\ trainer = <<>>
    /\ cache = <<>>
    /\ global_acc = <<>>
    /\ val_score = 0
    /\ disk = <<>>
    /\ input_i = ""
    /\ prompted = FALSE
    /\ workers = <<>>
    /\ spawned = <<>>
    /\ executed = {}
    /\ err = ""

IdleTest ==
    /\ t_pc = "idle"
    /\ t_args = <<>>
    /\ t_split = <<>>
    /\ t_next = 0
    /\ t_list = <<>>

IdlePair ==
    /\ p_pc = "idle"
    /\ p_args = <<>>
    /\ p_user = <<>>
    /\ p_score = 0
    /\ p_quiet = <<>>
    /\ p_loud = <<>>

-----------------------------------------------------------------------------
(* EasyTorch.__init__ *)

\* the named constructor parameters modelled, one of each Python type, in
\* the order of their `if p: self.args.update(p=p)` lines
MergeOrder == <<"phase", "epochs", "gpus", "dataset_dir", "verbose">>

\* the values a caller passes for a named parameter
PassedValues(p) ==
    CASE p = "phase" -> {None, Some(""), Some("test")}
      [] p = "epochs" -> {None, Some(0), Some(2)}
      [] p = "gpus" -> {None, Some(<<>>), Some(Range(MaxGpus))}
      [] p = "dataset_dir" -> {None, Some(<<>>), Some(S_mnt)}
      [] p = "verbose" -> {None, Some(FALSE), Some(TRUE)}

\* the args mappings a caller supplies
DefaultArgs ==
    [phase : {Absent, None, Some("train"), Some("val")},
     epochs : {Some(51)},
     gpus : {Absent, None} \cup {Some(Range(n)) : n \in 0..MaxGpus},
     dataset_dir : {Absent, Some(<<>>), Some(S_data)},
     verbose : {Absent, Some(FALSE), Some(TRUE)},
     node_rank : {Absent},
     use_ddp : {Absent},
     num_gpus : {Absent}]

DSpec1 == (S_name :> S_ds)
DSpec2 == (S_name :> S_ds) @@ (S_img_dir :> S_images)
DSpec3 == (S_name :> S_ds) @@ (S_img_dir :> S_abs) @@ (S_direction :> S_up)
DSpecs == {DSpec1, DSpec2, DSpec3}

\* the dataspecs lists a caller supplies
DataspecLists == {<<d>> : d \in DSpecs} \cup {<<d, e>> : d \in DSpecs, e \in DSpecs}

InitCtor ==
    /\ c_pc = "init_args"
    /\ c_env \in {e \in [num_gpus : 0..MaxGpus, cuda_available : BOOLEAN] :
                    e.cuda_available <=> e.num_gpus > 0}
    /\ c_args = [k \in {} |-> Absent]
    /\ c_passed = [param |-> "", value |-> None]
    /\ c_in_specs = <<>>
    /\ c_dataspecs = <<>>
    /\ c_err = ""
    /\ IdleCkpt
    /\ IdleRun
    /\ IdleTest
    /\ IdlePair

\* self._init_args_(args), for a dict
init_args_ ==
    /\ c_pc = "init_args"
    /\ \E a \in DefaultArgs : c_args' = a
    /\ c_pc' = MergeOrder[1]
    /\ UNCHANGED <<c_env, c_passed, c_in_specs, c_dataspecs, c_err>>

\* the condition of `if p: self.args.update(p=p)`
MergeTakes(p, o) == Truthy(p, o)

\* args after `if p: self.args.update(p=p)` with o passed for p
MergeOne(a, p, o) ==
    IF MergeTakes(p, o) THEN [a EXCEPT ![p] = o] ELSE a

NextMerge(i) == IF i < Len(MergeOrder) THEN MergeOrder[i + 1] ELSE "kw"

\* one `if p: self.args.update(p=p)` line
MergeNamed ==
    \E i \in 1..Len(MergeOrder) :
        /\ c_pc = MergeOrder[i]
        /\ \E o \in PassedValues(MergeOrder[i]) :
             /\ c_args' = MergeOne(c_args, MergeOrder[i], o)
             /\ c_passed' = [param |-> MergeOrder[i], value |-> o]
        /\ c_pc' = NextMerge(i)
        /\ UNCHANGED <<c_env, c_in_specs, c_dataspecs, c_err>>

\* self.args.update(**kw): kw holds no named parameter
MergeKw ==
    /\ c_pc = "kw"
    /\ \E kw \in {Absent, Some(1)} :
         c_args' = IF kw = Absent THEN c_args ELSE [c_args EXCEPT !.node_rank = kw]
    /\ c_pc' = "dataspecs"
    /\ UNCHANGED <<c_env, c_passed, c_in_specs, c_dataspecs, c_err>>

\* the test of _init_dataspecs_ that selects the keys to qualify
IsDirKey(k) == Contains(k, S_dir)

\* one dataset spec after the loop of _init_dataspecs_
QualifySpec(dspec, dataset_dir) ==
    [k \in DOMAIN dspec |->
        IF IsDirKey(k) THEN PathJoin(dataset_dir, dspec[k]) ELSE dspec[k]]

\* self._init_dataspecs_(dataspecs); self.args['dataset_dir'] raises
\* KeyError when the key is absent and some key is qualified
init_dataspecs_ ==
    /\ c_pc = "dataspecs"
    /\ \E ds \in DataspecLists :
         /\ c_in_specs' = ds
         /\ IF /\ c_args.dataset_dir = Absent
               /\ \E i \in 1..Len(ds) : \E k \in DOMAIN ds[i] : IsDirKey(k)
            THEN /\ c_err' = "KeyError"
                 /\ c_pc' = "failed"
                 /\ c_dataspecs' = c_dataspecs
            ELSE /\ c_dataspecs' =
                      [i \in 1..Len(ds) |->
                          QualifySpec(ds[i],
                              IF IsSome(c_args.dataset_dir)
                              THEN Val(c_args.dataset_dir) ELSE <<>>)]
                 /\ c_pc' = "assert"
                 /\ c_err' = c_err
    /\ UNCHANGED <<c_env, c_args, c_passed>>

MODES_ == {"test", "train"}

\* self.args.get('phase') in self._MODES_
PhaseOkMut(a) == a.phase /= Absent
PhaseOk(a) == IsSome(a.phase) /\ Val(a.phase) \in MODES_

\* assert (self.args.get('phase') in self._MODES_)
AssertPhase ==
    /\ c_pc = "assert"
    /\ IF PhaseOk(c_args)
       THEN c_pc' = "defaults" /\ c_err' = c_err
       ELSE c_pc' = "failed" /\ c_err' = "AssertionError"
    /\ UNCHANGED <<c_env, c_args, c_passed, c_in_specs, c_dataspecs>>

\* d.get(k, default) on an entry
GetOr(o, default) == IF o = Absent THEN Some(default) ELSE o

\* self.args.update(verbose=self.args.get('verbose', True));
\* self.args.update(gpus=self.args.get('gpus', []))
Defaults ==
    /\ c_pc = "defaults"
    /\ c_args' = [c_args EXCEPT !.verbose = GetOr(c_args.verbose, TRUE),
                                !.gpus = GetOr(c_args.gpus, <<>>)]
    /\ c_pc' = "clamp"
    /\ UNCHANGED <<c_env, c_passed, c_in_specs, c_dataspecs, c_err>>

\* if self.args['verbose'] and len(self.args['gpus']) > num_gpus: clamp.
\* len(None) raises TypeError; the second `if` only warns.
ClampGpus ==
    /\ c_pc = "clamp"
    /\ IF ~Truthy("verbose", c_args.verbose)
       THEN c_args' = c_args /\ c_pc' = "ddp" /\ c_err' = c_err
       ELSE IF c_args.gpus = None
       THEN c_args' = c_args /\ c_pc' = "failed" /\ c_err' = "TypeError"
       ELSE /\ c_args' = IF Len(Val(c_args.gpus)) > c_env.num_gpus
                         THEN [c_args EXCEPT !.gpus = Some(Range(c_env.num_gpus))]
                         ELSE c_args
            /\ c_pc' = "ddp"
            /\ c_err' = c_err
    /\ UNCHANGED <<c_env, c_passed, c_in_specs, c_dataspecs>>

\* self._init_ddp_(); all([...]) evaluates len(self.args['gpus']) eagerly
init_ddp_ ==
    /\ c_pc = "ddp"
    /\ IF c_args.gpus = None
       THEN c_args' = c_args /\ c_pc' = "failed" /\ c_err' = "TypeError"
       ELSE /\ c_args' =
                 IF /\ c_env.cuda_available
                    /\ c_env.num_gpus > 1
                    /\ Len(Val(c_args.gpus)) > 1
                 THEN [c_args EXCEPT !.use_ddp = Some(TRUE),
                                     !.num_gpus = Some(Len(Val(c_args.gpus)))]
                 ELSE [c_args EXCEPT !.use_ddp = Some(FALSE)]
            /\ c_pc' = "constructed"
            /\ c_err' = c_err
    /\ UNCHANGED <<c_env, c_passed, c_in_specs, c_dataspecs>>

NextCtor ==
    \/ init_args_ /\ UNCHANGED <<ckptVars, runVars, testVars, pairVars>>
    \/ MergeNamed /\ UNCHANGED <<ckptVars, runVars, testVars, pairVars>>
    \/ MergeKw /\ UNCHANGED <<ckptVars, runVars, testVars, pairVars>>
    \/ init_dataspecs_ /\ UNCHANGED <<ckptVars, runVars, testVars, pairVars>>
    \/ AssertPhase /\ UNCHANGED <<ckptVars, runVars, testVars, pairVars>>
    \/ Defaults /\ UNCHANGED <<ckptVars, runVars, testVars, pairVars>>
    \/ ClampGpus /\ UNCHANGED <<ckptVars, runVars, testVars, pairVars>>
    \/ init_ddp_ /\ UNCHANGED <<ckptVars, runVars, testVars, pairVars>>

SpecCtor == InitCtor /\ [][NextCtor]_vars

-----------------------------------------------------------------------------
(* ETTrainer: models, optimizers, checkpoints *)

\* A trainer's models are an ordered dict: keys is the key order, nn maps a
\* key to [wrapped, params], wrapped telling whether the model sits in a
\* DistributedDataParallel wrapper (has a .module) and params standing for
\* its parameter state. Optimizers have no .module.
\* A state dict is [layout, params]: "plain" keys, "wrapped" keys (prefixed
\* with 'module.') or, for a mapping that is no state dict, "checkpoint".
\* A dict of a checkpoint is a sequence of <<key, state dict>> in insertion
\* order.

ModelKeys == {<<"m">>, <<"m", "g">>}
OptimizerKeys == {<<"adam">>, <<"adam", "sgd">>}

\* str.lower() on the source tags that occur
Lower(str) ==
    CASE str = "EasyTorch" -> "easytorch"
      [] str = "Y" -> "y"
      [] str = "N" -> "n"
      [] str = "NO" -> "no"
      [] OTHER -> str

\* try: x.module.state_dict()  except: x.state_dict()
state_dict(mod) ==
    IF mod.wrapped
    THEN [layout |-> "plain", params |-> mod.params]
    ELSE [layout |-> "plain", params |-> mod.params]

\* the dict one loop of save_checkpoint leaves: it is assigned {} in every
\* iteration, before the entry of that iteration is put in
RECURSIVE SaveEntries(_, _, _)
SaveEntries(keys, tab, acc) ==
    IF keys = <<>> THEN acc
    ELSE LET reset == <<>>
         IN SaveEntries(Tail(keys), tab,
                Some(Append(reset, <<Head(keys), state_dict(tab[Head(keys)])>>)))

\* the mapping save_checkpoint hands to torch.save
save_checkpoint(tr, src) ==
    [source |-> Some(src),
     models |-> SaveEntries(tr.keys, tr.nn, Absent),
     optimizers |-> SaveEntries(tr.okeys, tr.optimizer, Absent),
     raw |-> Absent]

\* try: x.module.load_state_dict(sd)  except: x.load_state_dict(sd)
\* [err, mod]: strict loading raises when the keys do not match
load_state_dict(mod, sd) ==
    IF mod.wrapped /\ sd.layout = "plain"
    THEN [err |-> "", mod |-> [mod EXCEPT !.params = sd.params]]
    ELSE IF mod.wrapped
    THEN IF sd.layout = "wrapped"
         THEN [err |-> "", mod |-> [mod EXCEPT !.params = sd.params]]
         ELSE [err |-> "RuntimeError", mod |-> mod]
    ELSE IF sd.layout = "plain"
         THEN [err |-> "", mod |-> [mod EXCEPT !.params = sd.params]]
         ELSE [err |-> "RuntimeError", mod |-> mod]

\* for m in entries: load entries[m] into tab[m]; stops at the first
\* exception, with what was loaded before it kept
RECURSIVE LoadEntries(_, _)
LoadEntries(entries, tab) ==
    IF entries = <<>> THEN [err |-> "", tab |-> tab]
    ELSE LET m == Head(entries)[1]
             sd == Head(entries)[2]
         IN IF m \notin DOMAIN tab THEN [err |-> "KeyError", tab |-> tab]
            ELSE LET r == load_state_dict(tab[m], sd)
                 IN IF r.err /= "" THEN [err |-> r.err, tab |-> tab]
                    ELSE LoadEntries(Tail(entries), [tab EXCEPT ![m] = r.mod])

\* the checkpoint read as one state dict
RawView(chk) ==
    IF IsSome(chk.raw) THEN Val(chk.raw) ELSE [layout |-> "checkpoint", params |-> 0]

\* chk.get('source', 'Unknown').lower() == 'easytorch'
IsEasytorchMut(chk) == chk.source = Some("easytorch")
IsEasytorch(chk) ==
    Lower(IF IsSome(chk.source) THEN Val(chk.source) ELSE "Unknown") = "easytorch"

\* the optimizers part of load_checkpoint
LoadOptimizersMut(tr, chk) == [err |-> "", tr |-> tr]
LoadOptimizers(tr, chk) ==
    IF chk.optimizers = Absent THEN [err |-> "KeyError", tr |-> tr]
    ELSE LET r == LoadEntries(Val(chk.optimizers), tr.optimizer)
         IN [err |-> r.err, tr |-> [tr EXCEPT !.optimizer = r.tab]]

\* load_checkpoint, from the loaded mapping on: [err, tr]
load_checkpoint(tr, chk) ==
    IF IsEasytorch(chk)
    THEN IF chk.models = Absent THEN [err |-> "KeyError", tr |-> tr]
         ELSE LET r == LoadEntries(Val(chk.models), tr.nn)
                  tr1 == [tr EXCEPT !.nn = r.tab]
              IN IF r.err /= "" THEN [err |-> r.err, tr |-> tr1]
                 ELSE LoadOptimizers(tr1, chk)
    ELSE LET mkey == tr.keys[1]
             r == load_state_dict(tr.nn[mkey], RawView(chk))
         IN [err |-> r.err, tr |-> [tr EXCEPT !.nn[mkey] = r.mod]]

\* the trainers with the given keys: all models wrapped or none
Trainers(keys, okeys) ==
    {[keys |-> keys, okeys |-> okeys,
      nn |-> [k \in {keys[i] : i \in 1..Len(keys)} |->
                 [wrapped |-> w, params |-> ps[k]]],
      optimizer |-> [k \in {okeys[i] : i \in 1..Len(okeys)} |->
                 [wrapped |-> FALSE, params |-> os[k]]]] :
        w \in BOOLEAN,
        ps \in [{keys[i] : i \in 1..Len(keys)} -> 0..MaxParams],
        os \in [{okeys[i] : i \in 1..Len(okeys)} -> 0..MaxParams]}

\* the state dicts a foreign program may have written with torch.save
ForeignStateDicts == [layout : {"plain", "wrapped"}, params : 0..MaxParams]

InitCkpt ==
    /\ k_pc = "start"
    /\ \E keys \in ModelKeys, okeys \in OptimizerKeys :
         /\ k_A \in Trainers(keys, okeys)
         /\ k_B \in Trainers(keys, okeys)
    /\ k_file = Absent
    /\ k_err = ""
    /\ IdleCtor
    /\ IdleRun
    /\ IdleTest
    /\ IdlePair

\* trainer A: self.save_checkpoint(file_name, src)
SaveCheckpoint ==
    /\ k_pc = "start"
    /\ \E src \in {"easytorch", "EasyTorch", "other"} :
         k_file' = Some(save_checkpoint(k_A, src))
    /\ k_pc' = "saved"
    /\ UNCHANGED <<k_A, k_B, k_err>>

\* the file is a state dict that another program wrote
ForeignFile ==
    /\ k_pc = "start"
    /\ \E sd \in ForeignStateDicts :
         k_file' = Some([source |-> Absent, models |-> Absent,
                         optimizers |-> Absent, raw |-> Some(sd)])
    /\ k_pc' = "saved"
    /\ UNCHANGED <<k_A, k_B, k_err>>

\* trainer B: self.load_checkpoint(full_path)
LoadCheckpoint ==
    /\ k_pc = "saved"
    /\ LET r == load_checkpoint(k_B, Val(k_file))
       IN /\ k_B' = r.tr
          /\ k_err' = r.err
          /\ k_pc' = IF r.err = "" THEN "loaded" ELSE "load_failed"
    /\ UNCHANGED <<k_A, k_file>>

NextCkpt ==
    \/ SaveCheckpoint /\ UNCHANGED <<ctorVars, runVars, testVars, pairVars>>
    \/ ForeignFile /\ UNCHANGED <<ctorVars, runVars, testVars, pairVars>>
    \/ LoadCheckpoint /\ UNCHANGED <<ctorVars, runVars, testVars, pairVars>>

SpecCkpt == InitCkpt /\ [][NextCkpt]_vars

-----------------------------------------------------------------------------
(* EasyTorch.run, EasyTorch._run, ETTrainer.train *)

\* os.listdir(dspec['split_dir']): the number of split files of each of
\* the dataset specs given to the constructor
SplitFiles == <<2, 1>>
NumSpecs == Len(SplitFiles)
FoldIds == UNION {{<<d, f>> : f \in 1..SplitFiles[d]} : d \in 1..NumSpecs}

\* the values a monitored score takes
Scores == 0..MaxScore

\* best_score at the start of a fold: 0.0, or 1e11 under 'minimize' (above
\* every score; written as the largest integer TLC has)
InitBestMax == 0
InitBestMin == 2147483647

\* what input() returns in check_previous_logs
Answers == {"y", "Y", "yes", "n", "N", "no"}

\* the parameter state of a model that a previous run or another program
\* left in a file
FileParams == MaxEpochs + 1

\* a trainer as ETTrainer.__init__ leaves it
NewTrainer == [keys |-> <<>>, okeys |-> <<>>, nn |-> <<>>, optimizer |-> <<>>]

\* trainer.cache as _run leaves it before the loop over the split files
\* (lines 173-198); reset_dataset_cache is the user's hook and may set
\* another direction
NewCache(d, direction) ==
    [log_dir |-> d,
     experiment_id |-> 0,
     monitor_metric |-> "f1",
     metric_direction |-> direction,
     best_epoch |-> 0,
     best_score |-> 0,
     training_log |-> <<>>,
     validation_log |-> <<>>,
     test_score |-> <<>>,
     global_test_score |-> <<>>]

\* lines 210-214 of _run
FoldCacheMut(c, f) == [c EXCEPT !.experiment_id = f]
FoldCache(c, f) ==
    [c EXCEPT !.experiment_id = f,
              !.best_epoch = 0,
              !.best_score = IF c.metric_direction = "minimize"
                             THEN InitBestMin ELSE InitBestMax]

\* the log file check_previous_logs looks for
PreviousLog(a, c) ==
    <<c.log_dir, c.experiment_id,
      IF a.phase = "train" THEN "log.json" ELSE "test_scores.csv">>

\* the answers on which check_previous_logs raises
Refuses(i) == Lower(i) = "n"

\* check_previous_logs with `typed` the line the user would type:
\* [i, prompted, raised]
check_previous_logs(a, c, dsk, typed) ==
    IF a.force THEN [i |-> "y", prompted |-> FALSE, raised |-> FALSE]
    ELSE LET asks == PreviousLog(a, c) \in dsk.logs
             i == IF asks THEN typed ELSE "y"
         IN [i |-> i, prompted |-> asks, raised |-> Refuses(i)]

\* a model or optimizer as its constructor leaves it
Fresh == [wrapped |-> FALSE, params |-> 0]

\* self.nn after the user's _init_nn_model
init_nn_model(t, keys) ==
    [t EXCEPT !.keys = keys, !.nn = [k \in {keys[j] : j \in 1..Len(keys)} |-> Fresh]]

\* _init_nn_weights: [err, tr]
init_nn_weights(t, a, dsk) ==
    IF a.pretrained_path /= None
    THEN IF dsk.pretrained = Absent THEN [err |-> "FileNotFoundError", tr |-> t]
         ELSE load_checkpoint(t, Val(dsk.pretrained))
    ELSE IF a.phase = "train"
    THEN [err |-> "", tr |-> [t EXCEPT !.nn = [k \in DOMAIN t.nn |-> Fresh]]]
    ELSE [err |-> "", tr |-> t]

\* _init_optimizer: self.optimizer['adam'] = Adam(first model)
init_optimizer(t) ==
    [t EXCEPT !.okeys = IF "adam" \in DOMAIN t.optimizer THEN t.okeys
                        ELSE Append(t.okeys, "adam"),
              !.optimizer = [k \in DOMAIN t.optimizer \cup {"adam"} |->
                                IF k = "adam" THEN Fresh ELSE t.optimizer[k]]]

\* _set_gpus: every model is wrapped when cuda is available and use_ddp
set_gpus(t, a) ==
    [t EXCEPT !.nn = [k \in DOMAIN t.nn |-> [t.nn[k] EXCEPT !.wrapped = a.use_ddp]]]

\* init_nn: [err, tr]
init_nn(t, a, keys, dsk) ==
    LET r == init_nn_weights(init_nn_model(t, keys), a, dsk)
    IN IF r.err /= "" THEN r
       ELSE [err |-> "", tr |-> set_gpus(init_optimizer(r.tr), a)]

\* int(math.log(i + 1) + 1) for i in 1..19
LogPeriod(i) == IF i + 1 <= 2 THEN 1 ELSE IF i + 1 <= 7 THEN 2 ELSE 3

\* cache['training_log'] after the batches i..n of an epoch, `from` being
\* the first batch of the running window
RECURSIVE BatchLog(_, _, _, _, _)
BatchLog(log, i, n, from, verbose) ==
    IF i > n THEN log
    ELSE IF verbose /\ i % LogPeriod(i) = 0
    THEN BatchLog(Append(log, <<"window", from, i>>), i + 1, n, i + 1, verbose)
    ELSE BatchLog(log, i + 1, n, from, verbose)

\* the condition of save_if_better
ImprovesMut(direction, sc, best) ==
    \/ direction = "maximize" /\ sc > best
    \/ direction = "minimize" /\ sc < best
Improves(direction, sc, best) ==
    \/ direction = "maximize" /\ sc >= best
    \/ direction = "minimize" /\ sc <= best

\* _early_stopping
early_stoppingMut(e, c, a) == e - c.best_epoch > a.patience
early_stopping(e, c, a) == e - c.best_epoch >= a.patience

\* the checkpoint file of the fold: cache['log_dir'] + sep + cache['checkpoint']
CheckpointPath(c) == <<c.log_dir, c.experiment_id>>

\* run ends with the exception e
Abort(e) ==
    /\ pc' = "aborted"
    /\ err' = e

\* run: the loop over self.dataspecs is over
RunDone ==
    /\ pc = "run"
    /\ di > NumSpecs
    /\ pc' = "done"
    /\ UNCHANGED <<args, user, di, fi, ep, trainer, cache, global_acc, val_score,
                   disk, input_i, prompted, workers, spawned, executed, err>>

\* run, use_ddp: _mp.spawn(test, nprocs=self.args['num_gpus'], args=('HI There',))
Spawn ==
    /\ pc = "run"
    /\ di <= NumSpecs
    /\ args.use_ddp
    /\ workers' = [g \in 0..(args.num_gpus - 1) |-> "started"]
    /\ spawned' = Append(spawned, [fn |-> "test", nprocs |-> args.num_gpus,
                                   payload |-> "HI There", dspec |-> di])
    /\ pc' = "join"
    /\ UNCHANGED <<args, user, di, fi, ep, trainer, cache, global_acc, val_score,
                   disk, input_i, prompted, executed, err>>

\* a spawned process runs test(i, a), which prints and returns
WorkerTest ==
    /\ pc = "join"
    /\ \E g \in DOMAIN workers :
         /\ workers[g] = "started"
         /\ workers' = [workers EXCEPT ![g] = "exited"]
    /\ UNCHANGED <<args, user, pc, di, fi, ep, trainer, cache, global_acc, val_score,
                   disk, input_i, prompted, spawned, executed, err>>

\* _mp.spawn returns when every process has exited
Join ==
    /\ pc = "join"
    /\ \A g \in DOMAIN workers : workers[g] = "exited"
    /\ workers' = <<>>
    /\ di' = di + 1
    /\ pc' = "run"
    /\ UNCHANGED <<args, user, fi, ep, trainer, cache, global_acc, val_score,
                   disk, input_i, prompted, spawned, executed, err>>

\* run, not use_ddp: self._run(dspec, ...), lines 171-203 of _run
RunSetup ==
    /\ pc = "run"
    /\ di <= NumSpecs
    /\ ~args.use_ddp
    /\ trainer' = NewTrainer
    /\ cache' = NewCache(di, user.direction)
    /\ global_acc' = <<>>
    /\ fi' = 1
    /\ pc' = "fold"
    /\ UNCHANGED <<args, user, di, ep, val_score, disk, input_i, prompted,
                   workers, spawned, executed, err>>

\* _run: the next split file, lines 204-214
FoldBegin ==
    /\ pc = "fold"
    /\ fi <= SplitFiles[di]
    /\ cache' = FoldCache(cache, fi)
    /\ pc' = "check_logs"
    /\ UNCHANGED <<args, user, di, fi, ep, trainer, global_acc, val_score, disk,
                   input_i, prompted, workers, spawned, executed, err>>

\* _run: trainer.check_previous_logs()
CheckPreviousLogs ==
    /\ pc = "check_logs"
    /\ \E typed \in Answers :
         LET r == check_previous_logs(args, cache, disk, typed)
         IN /\ input_i' = r.i
            /\ prompted' = r.prompted
            /\ IF r.raised THEN Abort("FileExistsError")
               ELSE pc' = "init_nn" /\ err' = err
    /\ UNCHANGED <<args, user, di, fi, ep, trainer, cache, global_acc, val_score,
                   disk, workers, spawned, executed>>

\* _run: trainer.init_nn(); the locals of check_previous_logs are gone
InitNN ==
    /\ pc = "init_nn"
    /\ LET r == init_nn(trainer, args, user.keys, disk)
       IN /\ trainer' = r.tr
          /\ IF r.err /= "" THEN Abort(r.err)
             ELSE pc' = "reset_logs" /\ err' = err
    /\ input_i' = ""
    /\ prompted' = FALSE
    /\ UNCHANGED <<args, user, di, fi, ep, cache, global_acc, val_score, disk,
                   workers, spawned, executed>>

\* _run, lines 222-233: the logs of the fold are emptied, and train() is
\* entered in the train phase
ResetLogs ==
    /\ pc = "reset_logs"
    /\ cache' = [cache EXCEPT !.training_log = <<>>,
                              !.validation_log = <<>>,
                              !.test_score = <<>>]
    /\ IF args.phase = "train"
       THEN ep' = 1 /\ pc' = "ep_train"
       ELSE ep' = ep /\ pc' = "load_best"
    /\ UNCHANGED <<args, user, di, fi, trainer, global_acc, val_score, disk,
                   input_i, prompted, workers, spawned, executed, err>>

\* train: the batches of one epoch, lines 355-386. The default
\* training_iteration steps the first optimizer, which holds the parameters
\* of the first model; their state after epoch e is written e.
TrainEpoch ==
    /\ pc = "ep_train"
    /\ trainer' = [trainer EXCEPT !.nn[trainer.keys[1]].params = ep,
                                  !.optimizer[trainer.okeys[1]].params = ep]
    /\ cache' = [cache EXCEPT !.training_log =
                    Append(BatchLog(cache.training_log, 1, user.nbatches, 1, args.verbose),
                           <<"epoch", ep, user.nbatches>>)]
    /\ pc' = "ep_eval"
    /\ UNCHANGED <<args, user, di, fi, ep, global_acc, val_score, disk,
                   input_i, prompted, workers, spawned, executed, err>>

\* train: self.evaluation(split_key='validation', ...), line 387
Evaluate ==
    /\ pc = "ep_eval"
    /\ val_score' \in Scores
    /\ pc' = "ep_save"
    /\ UNCHANGED <<args, user, di, fi, ep, trainer, cache, global_acc, disk,
                   input_i, prompted, workers, spawned, executed, err>>

\* train: self.save_if_better(ep, val_metric), line 388
SaveIfBetter ==
    /\ pc = "ep_save"
    /\ IF Improves(cache.metric_direction, val_score, cache.best_score)
       THEN /\ disk' = [disk EXCEPT !.ckpt[CheckpointPath(cache)] =
                           Some(save_checkpoint(trainer, "easytorch"))]
            /\ cache' = [cache EXCEPT !.best_score = val_score, !.best_epoch = ep]
       ELSE UNCHANGED <<disk, cache>>
    /\ pc' = "ep_vlog"
    /\ UNCHANGED <<args, user, di, fi, ep, trainer, global_acc, val_score,
                   input_i, prompted, workers, spawned, executed, err>>

\* train: self.cache['validation_log'].append(...), line 389
AppendValLogMut ==
    /\ pc = "ep_vlog"
    /\ pc' = "ep_end"
    /\ UNCHANGED <<args, user, di, fi, ep, trainer, cache, global_acc, val_score, disk,
                   input_i, prompted, workers, spawned, executed, err>>
AppendValLog ==
    /\ pc = "ep_vlog"
    /\ cache' = [cache EXCEPT !.validation_log = Append(@, val_score)]
    /\ pc' = "ep_end"
    /\ UNCHANGED <<args, user, di, fi, ep, trainer, global_acc, val_score, disk,
                   input_i, prompted, workers, spawned, executed, err>>

\* train: self._on_epoch_end(...), line 391: plots, changes nothing
OnEpochEnd ==
    /\ pc = "ep_end"
    /\ pc' = "ep_stop"
    /\ UNCHANGED <<args, user, di, fi, ep, trainer, cache, global_acc, val_score,
                   disk, input_i, prompted, workers, spawned, executed, err>>

\* train: `if self._early_stopping(...): break`, and the loop's next epoch
EarlyStopping ==
    /\ pc = "ep_stop"
    /\ IF early_stopping(ep, cache, args) \/ ep >= args.epochs
       THEN ep' = ep /\ pc' = "save_cache"
       ELSE ep' = ep + 1 /\ pc' = "ep_train"
    /\ UNCHANGED <<args, user, di, fi, trainer, cache, global_acc, val_score,
                   disk, input_i, prompted, workers, spawned, executed, err>>

\* _run, lines 234-235: train() has returned, the cache is dumped
SaveCache ==
    /\ pc = "save_cache"
    /\ disk' = [disk EXCEPT !.logs = @ \cup {<<di, fi, "log.json">>}]
    /\ pc' = "load_best"
    /\ UNCHANGED <<args, user, di, fi, ep, trainer, cache, global_acc, val_score,
                   input_i, prompted, workers, spawned, executed, err>>

\* _run, lines 238-242: trainer.load_best_model(). ETTrainer defines
\* load_model only; a trainer class that adds load_best_model is taken to
\* load the checkpoint of the fold, as load_model does.
LoadBest ==
    /\ pc = "load_best"
    /\ IF args.phase = "train" \/ args.pretrained_path = None
       THEN IF ~user.has_load_best
            THEN Abort("AttributeError") /\ trainer' = trainer
            ELSE IF disk.ckpt[CheckpointPath(cache)] = Absent
            THEN Abort("FileNotFoundError") /\ trainer' = trainer
            ELSE LET r == load_checkpoint(trainer, Val(disk.ckpt[CheckpointPath(cache)]))
                 IN /\ trainer' = r.tr
                    /\ IF r.err /= "" THEN Abort(r.err)
                       ELSE pc' = "test" /\ err' = err
       ELSE pc' = "test" /\ err' = err /\ trainer' = trainer
    /\ UNCHANGED <<args, user, di, fi, ep, cache, global_acc, val_score, disk,
                   input_i, prompted, workers, spawned, executed>>

\* _run, lines 245-261: the test evaluation of the fold, its scores
\* accumulated, appended and saved
TestEval ==
    /\ pc = "test"
    /\ \E sc \in Scores :
         /\ global_acc' = Append(global_acc, sc)
         /\ cache' = [cache EXCEPT
                !.test_score = Append(@, <<sc>>),
                !.global_test_score =
                    Append(@, [label |-> "split", fold |-> fi, values |-> <<sc>>])]
    /\ disk' = [disk EXCEPT !.logs = @ \cup {<<di, fi, "test_scores.csv">>}]
    /\ executed' = executed \cup {<<di, fi>>}
    /\ fi' = fi + 1
    /\ pc' = "fold"
    /\ UNCHANGED <<args, user, di, ep, trainer, val_score, input_i, prompted,
                   workers, spawned, err>>

\* _run, lines 266-267: the loop over the split files is over
GlobalScoreMut ==
    /\ pc = "fold"
    /\ fi > SplitFiles[di]
    /\ di' = di + 1
    /\ pc' = "run"
    /\ UNCHANGED <<args, user, fi, ep, trainer, cache, global_acc, val_score, disk,
                   input_i, prompted, workers, spawned, executed, err>>
GlobalScore ==
    /\ pc = "fold"
    /\ fi > SplitFiles[di]
    /\ cache' = [cache EXCEPT !.global_test_score =
                    Append(@, [label |-> "Global", fold |-> 0, values |-> global_acc])]
    /\ di' = di + 1
    /\ pc' = "run"
    /\ UNCHANGED <<args, user, fi, ep, trainer, global_acc, val_score, disk,
                   input_i, prompted, workers, spawned, executed, err>>

\* a trainer of a previous run, whose state is in the files it left
PrevTrainer(keys) ==
    [keys |-> keys, okeys |-> <<"adam">>,
     nn |-> [k \in {keys[j] : j \in 1..Len(keys)} |->
                [wrapped |-> FALSE, params |-> FileParams]],
     optimizer |-> [k \in {"adam"} |-> [wrapped |-> FALSE, params |-> FileParams]]]

\* the files at pretrained_path: a state dict, or an easytorch checkpoint
PretrainedFiles(keys) ==
    {Some([source |-> Absent, models |-> Absent, optimizers |-> Absent,
           raw |-> Some([layout |-> "plain", params |-> FileParams])]),
     Some(save_checkpoint(PrevTrainer(keys), "easytorch"))}

\* no previous run
EmptyDisk(pre) ==
    [logs |-> {}, ckpt |-> [x \in FoldIds |-> Absent], pretrained |-> pre]

\* a previous train run of the same experiment has completed
TrainedDisk(keys, pre) ==
    [logs |-> {<<x[1], x[2], kind>> : x \in FoldIds, kind \in {"log.json", "test_scores.csv"}},
     ckpt |-> [x \in FoldIds |-> Some(save_checkpoint(PrevTrainer(keys), "easytorch"))],
     pretrained |-> pre]

\* the configurations of a constructed EasyTorch that run() is called on
RunArgs ==
    [phase : {"train", "test"}, force : BOOLEAN, verbose : {TRUE},
     epochs : 1..MaxRunEpochs, patience : {1},
     pretrained_path : {None, Some("w.pt")},
     use_ddp : {FALSE}, num_gpus : {0}]
    \cup
    [phase : {"train", "test"}, force : {FALSE}, verbose : {TRUE},
     epochs : {1}, patience : {1}, pretrained_path : {None},
     use_ddp : {TRUE}, num_gpus : 2..MaxGpus]

RunUsers ==
    [keys : ModelKeys, direction : {"maximize", "minimize"},
     has_load_best : BOOLEAN, nbatches : {1}]

Init ==
    /\ args \in RunArgs
    /\ user \in {u \in RunUsers : args.use_ddp => (u.keys = <<"m">> /\ u.has_load_best)}
    /\ pc = "run"
    /\ di = 1
    /\ fi = 0
    /\ ep = 0
    /\ trainer = NewTrainer
    /\ cache = NewCache(0, "maximize")
    /\ global_acc = <<>>
    /\ val_score = 0
    /\ \E pre \in IF args.pretrained_path = None THEN {Absent}
                  ELSE PretrainedFiles(user.keys) :
         disk \in {EmptyDisk(pre), TrainedDisk(user.keys, pre)}
    /\ input_i = ""
    /\ prompted = FALSE
    /\ workers = <<>>
    /\ spawned = <<>>
    /\ executed = {}
    /\ err = ""
    /\ IdleCtor
    /\ IdleCkpt
    /\ IdleTest
    /\ IdlePair

Next ==
    \/ RunDone /\ UNCHANGED <<ctorVars, ckptVars, testVars, pairVars>>
    \/ Spawn /\ UNCHANGED <<ctorVars, ckptVars, testVars, pairVars>>
    \/ WorkerTest /\ UNCHANGED <<ctorVars, ckptVars, testVars, pairVars>>
    \/ Join /\ UNCHANGED <<ctorVars, ckptVars, testVars, pairVars>>
    \/ RunSetup /\ UNCHANGED <<ctorVars, ckptVars, testVars, pairVars>>
    \/ FoldBegin /\ UNCHANGED <<ctorVars, ckptVars, testVars, pairVars>>
    \/ CheckPreviousLogs /\ UNCHANGED <<ctorVars, ckptVars, testVars, pairVars>>
    \/ InitNN /\ UNCHANGED <<ctorVars, ckptVars, testVars, pairVars>>
    \/ ResetLogs /\ UNCHANGED <<ctorVars, ckptVars, testVars, pairVars>>
    \/ TrainEpoch /\ UNCHANGED <<ctorVars, ckptVars, testVars, pairVars>>
    \/ Evaluate /\ UNCHANGED <<ctorVars, ckptVars, testVars, pairVars>>
    \/ SaveIfBetter /\ UNCHANGED <<ctorVars, ckptVars, testVars, pairVars>>
    \/ AppendValLog /\ UNCHANGED <<ctorVars, ckptVars, testVars, pairVars>>
    \/ OnEpochEnd /\ UNCHANGED <<ctorVars, ckptVars, testVars, pairVars>>
    \/ EarlyStopping /\ UNCHANGED <<ctorVars, ckptVars, testVars, pairVars>>
    \/ SaveCache /\ UNCHANGED <<ctorVars, ckptVars, testVars, pairVars>>
    \/ LoadBest /\ UNCHANGED <<ctorVars, ckptVars, testVars, pairVars>>
    \/ TestEval /\ UNCHANGED <<ctorVars, ckptVars, testVars, pairVars>>
    \/ GlobalScore /\ UNCHANGED <<ctorVars, ckptVars, testVars, pairVars>>

Spec == Init /\ [][Next]_vars

\* the configurations train() is entered with
TrainArgs ==
    [phase : {"train"}, force : {FALSE}, verbose : BOOLEAN,
     epochs : 1..MaxEpochs, patience : 1..MaxPatience,
     pretrained_path : {None}, use_ddp : {FALSE}, num_gpus : {0}]

TrainUsers ==
    [keys : ModelKeys, direction : {"maximize", "minimize"},
     has_load_best : {TRUE}, nbatches : 1..MaxBatches]

\* the first fold of the first dataset spec, as _run enters train()
InitTrain ==
    /\ args \in TrainArgs
    /\ user \in TrainUsers
    /\ pc = "ep_train"
    /\ di = 1
    /\ fi = 1
    /\ ep = 1
    /\ disk = EmptyDisk(Absent)
    /\ trainer = init_nn(NewTrainer, args, user.keys, disk).tr
    /\ cache = FoldCache(NewCache(1, user.direction), 1)
    /\ global_acc = <<>>
    /\ val_score = 0
    /\ input_i = ""
    /\ prompted = FALSE
    /\ workers = <<>>
    /\ spawned = <<>>
    /\ executed = {}
    /\ err = ""
    /\ IdleCtor
    /\ IdleCkpt
    /\ IdleTest
    /\ IdlePair

NextTrain ==
    \/ TrainEpoch /\ UNCHANGED <<ctorVars, ckptVars, testVars, pairVars>>
    \/ Evaluate /\ UNCHANGED <<ctorVars, ckptVars, testVars, pairVars>>
    \/ SaveIfBetter /\ UNCHANGED <<ctorVars, ckptVars, testVars, pairVars>>
    \/ AppendValLog /\ UNCHANGED <<ctorVars, ckptVars, testVars, pairVars>>
    \/ OnEpochEnd /\ UNCHANGED <<ctorVars, ckptVars, testVars, pairVars>>
    \/ EarlyStopping /\ UNCHANGED <<ctorVars, ckptVars, testVars, pairVars>>

SpecTrain == InitTrain /\ [][NextTrain]_vars

\* train() is sequential code: a statement that can run does run
SpecTrainFair == SpecTrain /\ WF_vars(NextTrain)

-----------------------------------------------------------------------------
(* EasyTorch._get_test_dataset *)

\* the file identifiers of a split
FileIds == 1..MaxFiles

\* the test lists of a split: lists, no longer than MaxFiles, of distinct
\* file identifiers
TestLists ==
    UNION {{l \in [1..n -> FileIds] : \A i, j \in 1..n : i /= j => l[i] /= l[j]} :
           n \in 0..MaxFiles}

\* split.get('test', [])
TestFiles(split) == Val(GetOr(split.test, <<>>))

\* dataset_cls(mode='eval', limit=...) followed by add(files=..., ...): the
\* dataset with what _get_test_dataset gave it
NewDataset(limit, files) == [mode |-> "eval", limit |-> limit, files |-> files]

\* the condition of the break in the loop over the test files
LimitReachedMut(list, a) == Len(list) > a.load_limit
LimitReached(list, a) == Len(list) >= a.load_limit

InitTest ==
    /\ t_pc = "enter"
    /\ t_args \in [load_sparse : {Absent, None, Some(FALSE), Some(TRUE)},
                   load_limit : 0..(MaxFiles + 1)]
    /\ t_split \in [test : {Absent} \cup {Some(l) : l \in TestLists}]
    /\ t_next = 1
    /\ t_list = <<>>
    /\ IdleCtor
    /\ IdleCkpt
    /\ IdleRun
    /\ IdlePair

\* `if self.args.get('load_sparse'):` is taken
EnterSparse ==
    /\ t_pc = "enter"
    /\ Truthy("load_sparse", t_args.load_sparse)
    /\ t_pc' = "sparse"
    /\ UNCHANGED <<t_args, t_split, t_next, t_list>>

\* one iteration of `for f in split.get('test', [])` that appends a dataset
SparseAppend ==
    /\ t_pc = "sparse"
    /\ t_next <= Len(TestFiles(t_split))
    /\ ~LimitReached(t_list, t_args)
    /\ t_list' = Append(t_list,
                        NewDataset(t_args.load_limit, <<TestFiles(t_split)[t_next]>>))
    /\ t_next' = t_next + 1
    /\ UNCHANGED <<t_pc, t_args, t_split>>

\* the loop ends: the list is exhausted, or the break is taken
SparseReturn ==
    /\ t_pc = "sparse"
    /\ \/ t_next > Len(TestFiles(t_split))
       \/ LimitReached(t_list, t_args)
    /\ t_pc' = "returned"
    /\ UNCHANGED <<t_args, t_split, t_next, t_list>>

\* the else branch: one dataset with the whole test list
WholeReturn ==
    /\ t_pc = "enter"
    /\ ~Truthy("load_sparse", t_args.load_sparse)
    /\ t_list' = Append(t_list, NewDataset(t_args.load_limit, TestFiles(t_split)))
    /\ t_pc' = "returned"
    /\ UNCHANGED <<t_args, t_split, t_next>>

NextTest ==
    \/ EnterSparse /\ UNCHANGED <<ctorVars, ckptVars, runVars, pairVars>>
    \/ SparseAppend /\ UNCHANGED <<ctorVars, ckptVars, runVars, pairVars>>
    \/ SparseReturn /\ UNCHANGED <<ctorVars, ckptVars, runVars, pairVars>>
    \/ WholeReturn /\ UNCHANGED <<ctorVars, ckptVars, runVars, pairVars>>

SpecTest == InitTest /\ [][NextTest]_vars

-----------------------------------------------------------------------------
(* Two runs of ETTrainer.train: one quiet, one verbose *)

\* a run as _run enters train(): the first fold of the first dataset spec
NewRun(a, u) ==
    [ep |-> 1,
     returned |-> FALSE,
     trainer |-> init_nn(NewTrainer, a, u.keys, EmptyDisk(Absent)).tr,
     cache |-> FoldCache(NewCache(1, u.direction), 1),
     ckpt |-> Absent]

\* the batches of one epoch, lines 355-386 of train
RunTrainEpoch(r, n, verbose) ==
    IF r.returned THEN r
    ELSE [r EXCEPT !.trainer.nn[r.trainer.keys[1]].params = r.ep,
                   !.trainer.optimizer[r.trainer.okeys[1]].params = r.ep,
                   !.cache.training_log =
                        Append(BatchLog(r.cache.training_log, 1, n, 1, verbose),
                               <<"epoch", r.ep, n>>)]

\* save_if_better and the append to validation_log, lines 388-389
RunSaveIfBetter(r, sc) ==
    IF r.returned THEN r
    ELSE LET s1 == IF Improves(r.cache.metric_direction, sc, r.cache.best_score)
                   THEN [r EXCEPT !.ckpt = Some(save_checkpoint(r.trainer, "easytorch")),
                                  !.cache.best_score = sc,
                                  !.cache.best_epoch = r.ep]
                   ELSE r
         IN [s1 EXCEPT !.cache.validation_log = Append(@, sc)]

\* the early-stopping check and the loop's next epoch, lines 392-393
RunEarlyStopping(r, a) ==
    IF r.returned THEN r
    ELSE IF early_stopping(r.ep, r.cache, a) \/ r.ep >= a.epochs
    THEN [r EXCEPT !.returned = TRUE]
    ELSE [r EXCEPT !.ep = r.ep + 1]

InitPair ==
    /\ p_pc = "ep_train"
    /\ p_args \in {a \in TrainArgs : ~a.verbose}
    /\ p_user \in TrainUsers
    /\ p_score = 0
    /\ p_quiet = NewRun(p_args, p_user)
    /\ p_loud = NewRun([p_args EXCEPT !.verbose = TRUE], p_user)
    /\ IdleCtor
    /\ IdleCkpt
    /\ IdleRun
    /\ IdleTest

\* both runs get the same batches with the same results
PairTrainEpoch ==
    /\ p_pc = "ep_train"
    /\ ~(p_quiet.returned /\ p_loud.returned)
    /\ p_quiet' = RunTrainEpoch(p_quiet, p_user.nbatches, FALSE)
    /\ p_loud' = RunTrainEpoch(p_loud, p_user.nbatches, TRUE)
    /\ p_pc' = "ep_eval"
    /\ UNCHANGED <<p_args, p_user, p_score>>

\* both validations give the same score
PairEvaluate ==
    /\ p_pc = "ep_eval"
    /\ p_score' \in Scores
    /\ p_pc' = "ep_save"
    /\ UNCHANGED <<p_args, p_user, p_quiet, p_loud>>

PairSaveIfBetter ==
    /\ p_pc = "ep_save"
    /\ p_quiet' = RunSaveIfBetter(p_quiet, p_score)
    /\ p_loud' = RunSaveIfBetter(p_loud, p_score)
    /\ p_pc' = "ep_stop"
    /\ UNCHANGED <<p_args, p_user, p_score>>

PairEarlyStopping ==
    /\ p_pc = "ep_stop"
    /\ p_quiet' = RunEarlyStopping(p_quiet, p_args)
    /\ p_loud' = RunEarlyStopping(p_loud, p_args)
    /\ p_pc' = "ep_train"
    /\ UNCHANGED <<p_args, p_user, p_score>>

NextPair ==
    \/ PairTrainEpoch /\ UNCHANGED <<ctorVars, ckptVars, runVars, testVars>>
    \/ PairEvaluate /\ UNCHANGED <<ctorVars, ckptVars, runVars, testVars>>
    \/ PairSaveIfBetter /\ UNCHANGED <<ctorVars, ckptVars, runVars, testVars>>
    \/ PairEarlyStopping /\ UNCHANGED <<ctorVars, ckptVars, runVars, testVars>>

SpecPair == InitPair /\ [][NextPair]_vars

-----------------------------------------------------------------------------
(* Claims about ETTrainer.train *)

\* C1: save_if_better updates the cache if and only if the score is >= the
\* best score under 'maximize', or <= under 'minimize' (a tie improves):
\* then a checkpoint holding the trained model is persisted, best_score is
\* the score and best_epoch the epoch; otherwise best_score, best_epoch and
\* the files are unchanged.
C1_SaveIfBetter ==
    [][pc = "ep_save" =>
        IF \/ cache.metric_direction = "maximize" /\ val_score >= cache.best_score
           \/ cache.metric_direction = "minimize" /\ val_score <= cache.best_score
        THEN /\ cache'.best_score = val_score
             /\ cache'.best_epoch = ep
             /\ IsSome(disk'.ckpt[<<di, fi>>])
             /\ Val(disk'.ckpt[<<di, fi>>]).source = Some("easytorch")
             /\ \E j \in 1..Len(Val(Val(disk'.ckpt[<<di, fi>>]).models)) :
                  LET e == Val(Val(disk'.ckpt[<<di, fi>>]).models)[j]
                  IN e[2].params = trainer.nn[e[1]].params
        ELSE /\ cache'.best_score = cache.best_score
             /\ cache'.best_epoch = cache.best_epoch
             /\ disk' = disk]_vars

\* C1's case: under 'maximize' a score equal to the best score of an
\* earlier epoch has just been taken as the new best
C1_Witness ==
    /\ pc = "ep_vlog"
    /\ cache.metric_direction = "maximize"
    /\ ep = 2
    /\ cache.validation_log = <<val_score>>
    /\ val_score > 0
    /\ cache.best_score = val_score
    /\ cache.best_epoch = 2

\* C2: with 1 <= patience and best_epoch + patience <= epochs, train()
\* returns with best_epoch + patience as the last epoch executed, and no
\* epoch past best_epoch + patience is ever entered.
C2_EarlyStop ==
    /\ (pc = "save_cache" /\ cache.best_epoch + args.patience <= args.epochs)
            => ep = cache.best_epoch + args.patience
    /\ pc \in {"ep_train", "ep_eval", "ep_save", "ep_vlog", "ep_end", "ep_stop"}
            => ep <= cache.best_epoch + args.patience

\* C2's case: an epoch improved, the next ones did not, and train() has
\* returned before the last epoch
C2_Witness ==
    /\ pc = "save_cache"
    /\ cache.best_epoch >= 1
    /\ ep = cache.best_epoch + args.patience
    /\ ep < args.epochs

\* the steps of one epoch in their order, the loop going on to the next
\* epoch only below args['epochs'] and when _early_stopping returns false
EpochOrder ==
    /\ pc = "ep_train" => (pc' = "ep_eval" /\ ep' = ep)
    /\ pc = "ep_eval" => (pc' = "ep_save" /\ ep' = ep /\ cache' = cache)
    /\ pc = "ep_save" => (pc' = "ep_vlog" /\ ep' = ep
                            /\ cache'.validation_log = cache.validation_log)
    /\ pc = "ep_vlog" => (pc' = "ep_end" /\ ep' = ep
                            /\ Len(cache'.validation_log) = Len(cache.validation_log) + 1)
    /\ pc = "ep_end" => (pc' = "ep_stop" /\ ep' = ep /\ cache' = cache)
    /\ pc = "ep_stop" =>
          IF ep - cache.best_epoch >= args.patience \/ ep = args.epochs
          THEN pc' = "save_cache" /\ ep' = ep
          ELSE pc' = "ep_train" /\ ep' = ep + 1

\* the epochs executed so far are within args['epochs'], and each of them
\* has its entry in validation_log from its append on
EpochsCounted ==
    /\ 1 <= ep
    /\ ep <= args.epochs
    /\ Len(cache.validation_log) =
            (IF pc \in {"ep_end", "ep_stop", "save_cache"} THEN ep ELSE ep - 1)

Extremum(direction, init, log) ==
    LET all == {init} \cup {log[e] : e \in 1..Len(log)}
    IN IF direction = "maximize"
       THEN CHOOSE x \in all : \A y \in all : y <= x
       ELSE CHOOSE x \in all : \A y \in all : x <= y

\* the latest epoch of the log with the score x, 0 if there is none
LatestWith(log, x) ==
    LET at == {0} \cup {e \in 1..Len(log) : log[e] = x}
    IN CHOOSE e \in at : \A f \in at : f <= e

\* C17: train() leaves monitor_metric and metric_direction as they are;
\* after every completed epoch best_score is the maximum (the minimum under
\* 'minimize') of the fold's initial best score and the validation scores
\* so far, and best_epoch the latest epoch with that score, 0 if there is
\* none; best_score never gets worse from a step to the next.
C17_BestScore ==
    /\ [](/\ cache.monitor_metric = "f1"
          /\ cache.metric_direction = user.direction
          /\ pc \in {"ep_end", "ep_stop", "save_cache"} =>
                LET init == IF cache.metric_direction = "minimize"
                            THEN InitBestMin ELSE InitBestMax
                    x == Extremum(cache.metric_direction, init, cache.validation_log)
                IN /\ Len(cache.validation_log) = ep
                   /\ cache.best_score = x
                   /\ cache.best_epoch = LatestWith(cache.validation_log, x))
    /\ [][IF cache.metric_direction = "maximize"
           THEN cache'.best_score >= cache.best_score
           ELSE cache'.best_score <= cache.best_score]_vars

\* C17's case: three epochs under 'maximize' whose best score came in the
\* second
C17_Witness ==
    /\ pc = "save_cache"
    /\ cache.metric_direction = "maximize"
    /\ cache.validation_log = <<1, 2, 1>>
    /\ cache.best_score = 2
    /\ cache.best_epoch = 2

\* the parameters the model k of the trainer had at the end of the training
\* of epoch e: the first model is the one the epochs train
ParamsAtEpoch(k, e) == IF k = trainer.keys[1] THEN e ELSE Fresh.params

\* C18: at the end of every epoch and when train() returns, if
\* best_epoch >= 1 the checkpoint file of the fold holds the state the
\* models had at the end of the training of epoch best_epoch, and loading
\* it restores exactly that state; if best_epoch = 0 this training has
\* written no checkpoint.
C18_CheckpointIsBest ==
    pc \in {"ep_end", "ep_stop", "save_cache"} =>
        IF cache.best_epoch >= 1
        THEN /\ IsSome(disk.ckpt[CheckpointPath(cache)])
             /\ LET chk == Val(disk.ckpt[CheckpointPath(cache)])
                    r == load_checkpoint(trainer, chk)
                IN /\ \A k \in DOMAIN trainer.nn :
                        \E j \in 1..Len(Val(chk.models)) :
                            /\ Val(chk.models)[j][1] = k
                            /\ Val(chk.models)[j][2].params =
                                    ParamsAtEpoch(k, cache.best_epoch)
                   /\ r.err = ""
                   /\ \A k \in DOMAIN trainer.nn :
                        r.tr.nn[k].params = ParamsAtEpoch(k, cache.best_epoch)
        ELSE disk.ckpt[CheckpointPath(cache)] = Absent

\* C19: two runs of train() that differ in args['verbose'] only and get
\* the same batches and results end with the same training_log,
\* validation_log, best_score and best_epoch, and with the same checkpoint
\* saved.
C19_VerboseOnlyPrints ==
    (p_quiet.returned /\ p_loud.returned) =>
        /\ p_quiet.cache.training_log = p_loud.cache.training_log
        /\ p_quiet.cache.validation_log = p_loud.cache.validation_log
        /\ p_quiet.cache.best_score = p_loud.cache.best_score
        /\ p_quiet.cache.best_epoch = p_loud.cache.best_epoch
        /\ p_quiet.ckpt = p_loud.ckpt

-----------------------------------------------------------------------------
(* Claims about EasyTorch.run and EasyTorch._run *)

\* the log file of the fold and phase exists
LogThere ==
    \/ args.phase = "train" /\ <<di, fi, "log.json">> \in disk.logs
    \/ args.phase = "test" /\ <<di, fi, "test_scores.csv">> \in disk.logs

\* C8: with force unset and the log file of the fold and phase there, the
\* fold goes on to init_nn only after the user has confirmed, and a refusal
\* raises FileExistsError; with force set, or no such file, nothing is asked
\* and nothing raised.
C8_ConfirmOrRaise ==
    /\ (pc = "init_nn" /\ ~args.force /\ LogThere)
            => (prompted /\ input_i \in {"y", "Y", "yes"})
    /\ (pc = "init_nn" /\ (args.force \/ ~LogThere)) => ~prompted
    /\ err = "FileExistsError" => (~args.force /\ LogThere /\ prompted)

\* C9: with use_ddp every spawn starts num_gpus workers that run job (join
\* the process group, then _run), and when run() returns the test
\* evaluation of every fold of every dataset spec has been executed.
C9_EveryFoldExecuted ==
    /\ \A j \in 1..Len(spawned) :
          spawned[j].fn = "job" /\ spawned[j].nprocs = args.num_gpus
    /\ pc = "done" => FoldIds \subseteq executed

\* C13: when the training of a fold starts, the first or a later one,
\* best_epoch is 0, best_score is the initial value of the fold's
\* metric_direction, and training_log, validation_log and test_score are
\* empty; so under 'minimize' the first candidate becomes the best.
C13_FoldCacheReset ==
    /\ (pc = "ep_train" /\ ep = 1) =>
            /\ cache.best_epoch = 0
            /\ cache.best_score = (IF cache.metric_direction = "minimize"
                                   THEN InitBestMin ELSE InitBestMax)
            /\ cache.training_log = <<>>
            /\ cache.validation_log = <<>>
            /\ cache.test_score = <<>>
    /\ (pc = "ep_vlog" /\ ep = 1 /\ cache.metric_direction = "minimize") =>
            (cache.best_score = val_score /\ cache.best_epoch = 1)

\* C13's case: the training of the second fold starts under 'minimize',
\* the first fold having trained and been evaluated
C13_Witness ==
    /\ pc = "ep_train"
    /\ ep = 1
    /\ fi = 2
    /\ cache.metric_direction = "minimize"
    /\ Len(cache.global_test_score) = 1
    /\ <<di, 1, "log.json">> \in disk.logs

\* C14: when _run has completed a dataset spec with N split files,
\* global_test_score has N + 1 rows: the row of every fold, in the order of
\* the folds and labelled with its split file, then one 'Global' row with
\* what the accumulators took, once from every fold; and the test_score
\* written for a fold holds that fold's one row.
C14_GlobalScoreLog ==
    /\ (pc \in {"run", "done"} /\ di > 1 /\ ~args.use_ddp) =>
            LET g == cache.global_test_score
                N == SplitFiles[di - 1]
            IN /\ Len(g) = N + 1
               /\ Len(global_acc) = N
               /\ \A f \in 1..N : /\ g[f].label = "split"
                                   /\ g[f].fold = f
                                   /\ g[f].values = <<global_acc[f]>>
               /\ g[N + 1].label = "Global"
               /\ g[N + 1].values = global_acc
    /\ (pc = "fold" /\ fi > 1) =>
            /\ Len(cache.global_test_score) = fi - 1
            /\ cache.test_score = <<cache.global_test_score[fi - 1].values>>
            /\ <<di, fi - 1, "test_scores.csv">> \in disk.logs

\* C14's case: the dataset spec with two split files has completed with
\* different scores in its two folds
C14_Witness ==
    /\ pc = "run"
    /\ di = 2
    /\ Len(cache.global_test_score) = 3
    /\ cache.global_test_score[3].label = "Global"
    /\ cache.global_test_score[1].values /= cache.global_test_score[2].values

\* _run loads the best checkpoint of the fold (line 238)
NeedsBest == args.phase = "train" \/ args.pretrained_path = None

\* the checkpoint file of the fold
BestFile == disk.ckpt[CheckpointPath(cache)]

\* C12: in every fold the trainer calls come in the order
\* check_previous_logs, init_nn, train (iff phase = train), the load of the
\* fold's best checkpoint (when phase = train or no pretrained_path is
\* given), test evaluation; the load is made and, its file being loadable,
\* followed by the evaluation; the evaluation is entered only with the best
\* checkpoint, or else the pretrained checkpoint of init_nn, loaded.
C12_FoldOrder ==
    [][/\ pc' = "init_nn" => pc = "check_logs"
       /\ pc' = "reset_logs" => pc = "init_nn"
       /\ pc' = "ep_train" => (args.phase = "train" /\ pc \in {"reset_logs", "ep_stop"})
       /\ (pc = "reset_logs" /\ args.phase = "train") => pc' = "ep_train"
       /\ pc' = "load_best" =>
              pc = (IF args.phase = "train" THEN "save_cache" ELSE "reset_logs")
       /\ pc' = "test" =>
              /\ pc = "load_best"
              /\ IF NeedsBest
                 THEN /\ IsSome(BestFile)
                      /\ load_checkpoint(trainer, Val(BestFile)) = [err |-> "", tr |-> trainer']
                 ELSE /\ IsSome(disk.pretrained)
                      /\ trainer' = trainer
                      /\ load_checkpoint(trainer, Val(disk.pretrained)) =
                                [err |-> "", tr |-> trainer]
       /\ (/\ pc = "load_best"
           /\ NeedsBest
           /\ IsSome(BestFile)
           /\ load_checkpoint(trainer, Val(BestFile)).err = "") => pc' = "test"]_vars

-----------------------------------------------------------------------------
(* Claims about EasyTorch.__init__ *)

\* C5: every named constructor parameter the caller passes explicitly (any
\* value but None, also False, 0, [] and '') is what args holds afterwards.
C5_NamedOverrides ==
    (c_passed.param /= "" /\ c_passed.value /= None)
        => c_args[c_passed.param] = c_passed.value

\* C6: once construction has succeeded the device list has no more entries
\* than there are devices, whatever verbose is.
C6_GpusClamped ==
    c_pc = "constructed" => Len(Val(c_args.gpus)) <= c_env.num_gpus

\* C7: a configuration whose phase is missing, None or neither 'train' nor
\* 'test' fails at construction: past the assert, and in every constructed
\* object, phase is 'train' or 'test'.
C7_PhaseValidated ==
    c_pc \in {"defaults", "clamp", "ddp", "constructed"}
        => c_args.phase \in {Some("train"), Some("test")}

\* C7's case: an invalid phase has reached the assert and construction failed
C7_Witness ==
    /\ c_pc = "failed"
    /\ c_err = "AssertionError"
    /\ c_args.phase \in {Absent, None, Some("val")}

\* C10: after _init_dataspecs_, exactly the entries whose key ends in "dir"
\* hold dataset_dir joined with their original value; every other entry
\* (also one whose key only contains "dir") keeps its original value.
C10_DirSuffixQualified ==
    (c_dataspecs /= <<>>) =>
        \A i \in 1..Len(c_dataspecs) : \A k \in DOMAIN c_dataspecs[i] :
            c_dataspecs[i][k] =
                IF EndsWith(k, S_dir)
                THEN PathJoin(Val(c_args.dataset_dir), c_in_specs[i][k])
                ELSE c_in_specs[i][k]

-----------------------------------------------------------------------------
(* Claims about checkpoints *)

\* the keys of a checkpoint dict
EntryKeys(o) == IF IsSome(o) THEN {Val(o)[i][1] : i \in 1..Len(Val(o))} ELSE {}

\* the file was written by save_checkpoint
FileSaved == k_pc /= "start" /\ IsSome(k_file) /\ Val(k_file).raw = Absent

\* C3: the mapping save_checkpoint persists has a source tag, a 'models'
\* entry for every key of self.nn and an 'optimizers' entry for every key of
\* self.optimizer, for any number of models and optimizers.
C3_SavesEveryModel ==
    FileSaved =>
        /\ IsSome(Val(k_file).source)
        /\ EntryKeys(Val(k_file).models) = DOMAIN k_A.nn
        /\ EntryKeys(Val(k_file).optimizers) = DOMAIN k_A.optimizer

\* C4: a checkpoint saved with source "easytorch" by a trainer with models
\* {"m"} and optimizers {"adam"}, loaded by a fresh trainer with the same
\* keys, leaves that trainer's model and optimizer state equal to the saved.
C4_RoundTrip ==
    (/\ FileSaved
     /\ Val(k_file).source = Some("easytorch")
     /\ k_A.keys = <<"m">>
     /\ k_A.okeys = <<"adam">>
     /\ k_pc \notin {"start", "saved"})
        => /\ k_pc = "loaded"
           /\ k_B.nn["m"].params = k_A.nn["m"].params
           /\ k_B.optimizer["adam"].params = k_A.optimizer["adam"].params

\* C4's case: the loading trainer held another state before the load
C4_Witness ==
    /\ FileSaved
    /\ Val(k_file).source = Some("easytorch")
    /\ k_A.keys = <<"m">>
    /\ k_A.okeys = <<"adam">>
    /\ k_pc = "loaded"
    /\ k_A.nn["m"].wrapped /= k_B.nn["m"].wrapped
    /\ k_A.nn["m"].params = MaxParams
    /\ k_A.optimizer["adam"].params = 0

\* every entry of the dict o of the checkpoint is in the entry of its name
\* of the table `after`, which is `before` in its other entries
RestoredByName(o, before, after) ==
    /\ IsSome(o)
    /\ \A j \in 1..Len(Val(o)) : after[Val(o)[j][1]].params = Val(o)[j][2].params
    /\ \A k \in DOMAIN before : k \notin EntryKeys(o) => after[k] = before[k]

\* load_checkpoint restores by name when `marked`, and else loads the whole
\* file into the first model only
Dispatch(marked) ==
    k_pc = "saved" =>
        LET chk == Val(k_file)
            first == k_B.keys[1]
        IN IF marked
           THEN /\ k_err' = ""
                /\ RestoredByName(chk.models, k_B.nn, k_B'.nn)
                /\ RestoredByName(chk.optimizers, k_B.optimizer, k_B'.optimizer)
           ELSE /\ k_B'.optimizer = k_B.optimizer
                /\ \A k \in DOMAIN k_B.nn : k /= first => k_B'.nn[k] = k_B.nn[k]
                /\ \/ k_err' = "" /\ k_B'.nn[first].params = RawView(chk).params
                   \/ k_err' /= "" /\ k_B' = k_B

\* C15 as stated: load_checkpoint restores every model and optimizer named
\* in the checkpoint by name if the source tag equals 'easytorch', and
\* otherwise loads the whole checkpoint into the first model only, leaving
\* the other models and the optimizers unchanged.
C15_DispatchExact ==
    [][Dispatch(Val(k_file).source = Some("easytorch"))]_vars

\* C15 amended: the same with the source tag compared in lower case, so
\* that 'EasyTorch' is the marker as well.
C15_DispatchLower ==
    [][Dispatch(/\ IsSome(Val(k_file).source)
                /\ Lower(Val(Val(k_file).source)) = "easytorch")]_vars

\* C15's case: a checkpoint tagged 'EasyTorch' whose optimizer state has
\* been restored by name into a trainer that held another state
C15_Witness ==
    /\ k_pc = "loaded"
    /\ Val(k_file).source = Some("EasyTorch")
    /\ k_A.keys = <<"m", "g">>
    /\ k_A.optimizer["adam"].params = 1
    /\ k_A.nn["g"].params = 1
    /\ k_A.nn["m"].params = 1
    /\ k_B.optimizer["adam"].params = 1
    /\ k_B.nn["g"].params = 1
    /\ k_B.nn["m"].params = 0
    /\ k_A.okeys = <<"adam">>

-----------------------------------------------------------------------------
(* Claims about EasyTorch._get_test_dataset *)

Min(a, b) == IF a <= b THEN a ELSE b

\* C11: with load_sparse true the returned list has min(len(test list),
\* load_limit) datasets, the j-th holding exactly the j-th file of the test
\* list; with load_sparse false it has one dataset holding the whole list.
C11_SparseTestSets ==
    t_pc = "returned" =>
        IF t_args.load_sparse = Some(TRUE)
        THEN /\ Len(t_list) = Min(Len(TestFiles(t_split)), t_args.load_limit)
             /\ \A j \in 1..Len(t_list) : t_list[j].files = <<TestFiles(t_split)[j]>>
        ELSE /\ Len(t_list) = 1
             /\ t_list[1].files = TestFiles(t_split)

\* C11's case: a sparse load of three files cut at a load_limit of two
C11_Witness ==
    /\ t_pc = "returned"
    /\ t_args.load_sparse = Some(TRUE)
    /\ Len(TestFiles(t_split)) = 3
    /\ t_args.load_limit = 2
    /\ Len(t_list) = 2

=============================================================================
